---- MODULE Spec2Model ----
(***************************************************************************)
(* The play-session aggregator of zamio_backend: the MatchCache table, the *)
(* PlayLog table, the receive_match endpoint that appends cache rows and   *)
(* the process_match_cache management command that turns cache rows into   *)
(* PlayLog rows.  Times are seconds on a grid of Step seconds.             *)
(***************************************************************************)
EXTENDS Integers, Sequences, FiniteSets, Bags, TLC

\* ------------------------------------------------------------ bounds
\* seconds between two readings of the clock
Step == 30
\* the long horizon: one track, few rows, enough ticks for the window to slide
\* past a row
LongTracks == 1
LongStations == 1
LongRows == 4
LongTicks == 7
\* the burst horizon: two tracks, many rows inside one window
BurstTracks == 2
BurstStations == 1
BurstRows == 6
BurstTicks == 1
\* the short horizon: one station, just enough rows and time for one session
ShortTracks == 1
ShortRows == 3
ShortTicks == 1
\* the matcher alone: a small index of two songs over one hash and the offsets
\* 0 and 1, and clips of up to two entries, repeated often enough to reach the
\* thresholds
MatchRows == 2
MatchReps == 50
MatchPad == 250
MatchBallast == 1100
\* the round trip: a song a little longer than the vote threshold, clips from
\* its first frames
TripFrames == 53
TripShift == 2
\* the index in use: uploads of up to two entries
IndexSongs == 1
IndexUploadLen == 2
IndexRequests == 1

\* the spectrograms of the peak picker: frequency bins, frames, the largest
\* amplitude, and PEAK_NEIGHBORHOOD_SIZE at the scale of these spectrograms
PeakRows == 3
PeakCols == 3
PeakLevels == 2
PeakRadius == 1
\* the peak lists of generate_hashes: their length and the largest fan_value
HashPeaks == 3
HashFan == 3
\* the rows of the cache while a pass is taken query by query
RaceRows == 4

\* ------------------------------------------------- program constants
\* time_window = now() - timedelta(minutes=3)
WINDOW_MINUTES == 3
\* if group['count'] >= 3
MIN_COUNT == 3
\* if duration.total_seconds() >= 30
MIN_SECONDS == 30
\* start - timedelta(seconds=60), stop + timedelta(seconds=60)
MARGIN_SECONDS == 60
\* rate_per_second = 0.01, in cents
RATE_PER_SECOND_CENTS == 1
\* rate_per_minute = 0.10, in cents (music_monitor/views.py)
RATE_PER_MINUTE_CENTS == 10
\* MIN_MATCH_COUNT = 50
MIN_MATCH_COUNT == 50
\* MIN_INPUT_CONF = 20.0, percent
MIN_INPUT_CONF == 20
\* MIN_DB_CONF = 5.0, percent
MIN_DB_CONF == 5
\* round(offset_diff * 0.32, 2): hundredths of a second per frame
FRAME_CENTISECONDS == 32
\* get_spectrogram(samples, window_size=4096, hop_size=2048): samples per frame
hop_size == 2048
\* ffmpeg -ar 44100, set_frame_rate(44100): samples per second
DEFAULT_FS == 44100
\* batch_size = 1000: query hashes per lookup of tasks_Grok.detect_audio_match
batch_size == 1000
\* 'MIN_HASH_TIME_DELTA': 0 and 'MAX_HASH_TIME_DELTA': 500, in frames
MIN_HASH_TIME_DELTA == 0
MAX_HASH_TIME_DELTA == 500

VARIABLES
    now,        \* django.utils.timezone.now(), seconds
    tracks,     \* ids of the Track rows that exist
    cache,      \* MatchCache table: a bag of rows
    playlog,    \* PlayLog table: rows in insertion order
    lim,        \* the horizon of this behaviour: [tracks, stations, rows, ticks]
    last,       \* the operation that produced this state, with what it saw
    quietRuns,  \* passes that returned or raised since the last record_match or
                \* killed pass (capped at 2)
    replayed,   \* indices of PlayLog rows whose pass died before its delete
    songs,      \* ids of the Song rows that exist
    fps,        \* Fingerprint table: rows (song, hash, offset)
    fp_rows,    \* the same table as the database holds it: a bag of rows, in
                \* which two equal rows would be two rows
    ballast,    \* further Fingerprint rows of one song, under a hash no query holds
    ingest,     \* the upload_audio_api request in flight
    rec,        \* the detect_audio_match request in flight
    result,     \* the response of the last detect_audio_match
    cached,     \* django.core.cache: the responses kept under the audio's digest
    dsp,        \* one run of the fingerprint pipeline: spectrogram, peaks, hashes
    run         \* a process_match_cache pass that is taken query by query

aggregator == <<now, tracks, cache, playlog, last, quietRuns, replayed, run>>
index == <<songs, fps, fp_rows, ballast, ingest, rec, result, cached, dsp>>
vars == <<now, tracks, cache, playlog, lim, last, quietRuns, replayed,
          songs, fps, fp_rows, ballast, ingest, rec, result, cached, dsp, run>>

TrackIds == 1..lim.tracks
StationIds == 1..lim.stations

\* ------------------------------------------------------------ MatchCache
MatchCache(track, station, matched_at) ==
    [track |-> track, station |-> station, matched_at |-> matched_at]

\* MatchCache.objects.create(track_id=..., station_id=..., matched_at=match_time):
\* matched_at is declared auto_now_add=True, so the value saved is now(),
\* whatever the caller passed.
CreateMatch(c, track, station, match_time, clock) ==
    c (+) SetToBag({MatchCache(track, station, clock)})

\* ------------------------------------------------------------ queries
Min(S) == CHOOSE x \in S : \A y \in S : x <= y
Max(S) == CHOOSE x \in S : \A y \in S : x >= y

RECURSIVE SumCopies(_, _)
SumCopies(c, S) ==
    IF S = {} THEN 0
    ELSE LET r == CHOOSE x \in S : TRUE
         IN CopiesIn(r, c) + SumCopies(c, S \ {r})

\* .filter(matched_at__gte=time_window)
InWindow(c, time_window) ==
    {r \in BagToSet(c) : r.matched_at >= time_window}

\* .filter(track_id=..., station_id=..., matched_at__gte=time_window)
Matches(c, g, time_window) ==
    {r \in InWindow(c, time_window) : r.track = g[1] /\ r.station = g[2]}

\* .values('track_id', 'station_id').annotate(count=Count('id'))
GroupKeys(c, time_window) ==
    {<<r.track, r.station>> : r \in InWindow(c, time_window)}

GroupCount(c, g, time_window) == SumCopies(c, Matches(c, g, time_window))

\* matches.earliest('matched_at').matched_at / matches.latest('matched_at').matched_at
Earliest(m) == Min({r.matched_at : r \in m})
Latest(m) == Max({r.matched_at : r \in m})

\* matches.delete()
DeleteMatches(c, g, time_window) ==
    LET gone == Matches(c, g, time_window)
        keep == BagToSet(c) \ gone
    IN [r \in keep |-> c[r]]

\* ------------------------------------------------------------ royalty
\* round(x, 2) of an amount of num/den cents: to the nearest cent, halves to even
RoundCents(num, den) ==
    LET q == num \div den
        r == num % den
    IN IF 2 * r > den \/ (2 * r = den /\ q % 2 = 1) THEN q + 1 ELSE q

\* Track.calculate_royalty: round(duration_seconds * 0.01, 2), in cents
calculate_royalty(duration) ==
    RoundCents(duration * RATE_PER_SECOND_CENTS, 1)

\* ------------------------------------------------------------ PlayLog
PlayLog(g, start, stop, duration, royalty) ==
    [track |-> g[1], station |-> g[2], start_time |-> start, stop_time |-> stop,
     duration |-> duration, royalty_amount |-> royalty]

\* PlayLog.objects.filter(track=track, station_id=..., start_time__range=(lo, hi)).exists()
Exists(log, g, start, stop) ==
    \E i \in 1..Len(log) :
        /\ log[i].track = g[1]
        /\ log[i].station = g[2]
        /\ start - MARGIN_SECONDS <= log[i].start_time
        /\ log[i].start_time <= stop + MARGIN_SECONDS

EnoughMatchesOffByOne(count) == count > MIN_COUNT

\* if group['count'] >= 3
EnoughMatches(count) == count >= MIN_COUNT

LongEnoughAnySpan(duration) == duration >= 0

\* if duration.total_seconds() >= 30
LongEnough(duration) == duration >= MIN_SECONDS

\* The body of `for group in groups` for one group.  count is the group's count
\* in the groups query; dies says the process is killed between the PlayLog
\* insert and matches.delete().  Track.objects.get raises Track.DoesNotExist for
\* an id with no Track row, and the exception leaves handle().
HandleGroup(g, count, time_window, c, log, dies) ==
    IF ~EnoughMatches(count)
    THEN [cache |-> c, log |-> log, outcome |-> "ok"]
    ELSE
        LET matches == Matches(c, g, time_window)
            start == Earliest(matches)
            stop == Latest(matches)
            duration == stop - start
        IN  IF ~LongEnough(duration)
            THEN [cache |-> DeleteMatches(c, g, time_window), log |-> log, outcome |-> "ok"]
            ELSE IF g[1] \notin tracks
            THEN [cache |-> c, log |-> log, outcome |-> "raised"]
            ELSE
                LET royalty == calculate_royalty(duration)
                    log2 == IF Exists(log, g, start, stop)
                            THEN log
                            ELSE Append(log, PlayLog(g, start, stop, duration, royalty))
                IN  IF dies
                    THEN [cache |-> c, log |-> log2, outcome |-> "killed"]
                    ELSE [cache |-> DeleteMatches(c, g, time_window), log |-> log2,
                          outcome |-> "ok"]

\* The loop over the groups, in the order the database returned them.
RECURSIVE RunGroups(_, _, _, _, _, _)
RunGroups(order, counts, time_window, c, log, killAt) ==
    IF order = <<>>
    THEN [cache |-> c, log |-> log, outcome |-> "ok"]
    ELSE
        LET g == Head(order)
            r == HandleGroup(g, counts[g], time_window, c, log, g = killAt)
        IN  IF r.outcome # "ok"
            THEN r
            ELSE RunGroups(Tail(order), counts, time_window, r.cache, r.log, killAt)

\* The groups query has no ORDER BY: any order of its rows.
RECURSIVE Orders(_)
Orders(S) ==
    IF S = {} THEN {<<>>}
    ELSE UNION {{<<g>> \o o : o \in Orders(S \ {g})} : g \in S}

NoGroup == <<0, 0>>

\* ------------------------------------------------------------ history
Idle(op) ==
    [op |-> op, outcome |-> "ok", time_window |-> 0, before |-> EmptyBag,
     logBefore |-> 0, supplied |-> 0, stored |-> 0]

\* no pass in progress
NoRun ==
    [pc |-> "idle", time_window |-> 0, order |-> <<>>, counts |-> <<>>,
     before |-> EmptyBag, group |-> NoGroup, measured |-> EmptyBag,
     deleted |-> EmptyBag]

\* no upload, no recognition and no response yet
NoBallast == [song |-> 0, rows |-> 0]
NoAudio == [base |-> <<>>, reps |-> 0, pad |-> 0]
NoIngest == [pc |-> "idle", song |-> 0, audio |-> NoAudio, outcome |-> "none"]
NoRequest ==
    [pc |-> "idle", audio |-> NoAudio, converted |-> FALSE, readable |-> FALSE,
     seen |-> {},
     db_fps |-> <<>>, song_id |-> 0, offset_diff |-> 0, match_count |-> 0,
     served |-> 0, uploaded |-> "none", hit |-> FALSE]
\* no spectrogram taken yet
NoDsp ==
    [pc |-> "idle", arr2D |-> <<>>, amp_min |-> 0, peaks |-> <<>>, fan_value |-> 0,
     hashes |-> <<>>]
NoResult ==
    [kind |-> "none", reason |-> "", status |-> 0, song_id |-> 0, offset |-> 0,
     offset_seconds |-> 0, match_count |-> 0, total_query_hashes |-> 0,
     total_song_hashes |-> 0]

\* ------------------------------------------------------------ Init
Horizon(ntracks, nstations, rows, ticks) ==
    [tracks |-> ntracks, stations |-> nstations, rows |-> rows, ticks |-> ticks]

InitWith(h, known) ==
    /\ now = 0
    /\ lim = h
    /\ tracks \in known
    /\ cache = EmptyBag
    /\ playlog = <<>>
    /\ last = Idle("init")
    /\ quietRuns = 0
    /\ replayed = {}
    /\ run = NoRun
    /\ songs = {}
    /\ fps = {}
    /\ fp_rows = EmptyBag
    /\ ballast = NoBallast
    /\ ingest = NoIngest
    /\ rec = NoRequest
    /\ result = NoResult
    /\ cached = {}
    /\ dsp = NoDsp

Init == InitWith(Horizon(LongTracks, LongStations, LongRows, LongTicks), SUBSET (1..LongTracks))

InitBurst == InitWith(Horizon(BurstTracks, BurstStations, BurstRows, BurstTicks), SUBSET (1..BurstTracks))

InitShort == InitWith(Horizon(ShortTracks, 1, ShortRows, ShortTicks), SUBSET (1..ShortTracks))

\* ------------------------------------------------------------ actions
\* the clock advances
Tick ==
    /\ now < lim.ticks * Step
    /\ now' = now + Step
    /\ last' = Idle("tick")
    /\ UNCHANGED <<tracks, cache, playlog, lim, quietRuns, replayed, run>>
    /\ UNCHANGED index

\* receive_match: the request's match_time is now() or a time the analyzer chose
RecordMatch ==
    \E track \in TrackIds, station \in StationIds,
       match_time \in {t \in {now - Step, now} : t >= 0} :
        /\ BagCardinality(cache) < lim.rows
        /\ cache' = CreateMatch(cache, track, station, match_time, now)
        /\ last' = [Idle("record") EXCEPT !.supplied = match_time, !.stored = now]
        /\ quietRuns' = 0
        /\ UNCHANGED <<now, tracks, playlog, lim, replayed, run>>
        /\ UNCHANGED index

Pass(order, killAt) ==
    LET time_window == now - WINDOW_MINUTES * 60
        counts == [g \in GroupKeys(cache, time_window) |-> GroupCount(cache, g, time_window)]
        r == RunGroups(order, counts, time_window, cache, playlog, killAt)
    IN  /\ (killAt # NoGroup) <=> (r.outcome = "killed")
        /\ cache' = r.cache
        /\ playlog' = r.log
        /\ last' = [Idle("run") EXCEPT !.outcome = r.outcome,
                                       !.time_window = time_window,
                                       !.before = cache,
                                       !.logBefore = Len(playlog)]
        /\ quietRuns' = IF r.outcome = "killed" THEN 0
                        ELSE IF quietRuns < 2 THEN quietRuns + 1 ELSE 2
        /\ replayed' = IF /\ r.outcome = "killed"
                          /\ Len(r.log) > Len(playlog)
                          /\ r.log[Len(r.log)].track = killAt[1]
                          /\ r.log[Len(r.log)].station = killAt[2]
                       THEN replayed \cup {Len(r.log)}
                       ELSE replayed
        /\ UNCHANGED <<now, tracks, lim, run>>
        /\ UNCHANGED index

\* process_match_cache: Command.handle, run until it returns or raises
RunAggregation ==
    \E order \in Orders(GroupKeys(cache, now - WINDOW_MINUTES * 60)) :
        Pass(order, NoGroup)

\* process_match_cache: Command.handle, killed between an insert and its delete
RunAggregationKilled ==
    \E order \in Orders(GroupKeys(cache, now - WINDOW_MINUTES * 60)) :
        \E killAt \in GroupKeys(cache, now - WINDOW_MINUTES * 60) :
            Pass(order, killAt)

\* ------------------------------------------------------------ the pass, query by query
\* the rows of c that are in S, with their copies
Restrict(c, S) == [r \in S \cap BagToSet(c) |-> c[r]]

\* lines 13-22: time_window and the groups query, evaluated when the loop starts
HandleGroups ==
    \E order \in Orders(GroupKeys(cache, now - WINDOW_MINUTES * 60)) :
        LET time_window == now - WINDOW_MINUTES * 60
        IN  /\ run.pc = "idle"
            /\ run' = [NoRun EXCEPT
                          !.pc = "loop", !.time_window = time_window, !.order = order,
                          !.counts = [g \in GroupKeys(cache, time_window) |->
                                         GroupCount(cache, g, time_window)],
                          !.before = cache]
            /\ UNCHANGED <<now, tracks, cache, playlog, lim, last, quietRuns, replayed>>
            /\ UNCHANGED index

\* lines 22-54 for the next group: the count test, matches.earliest() and
\* matches.latest(), Track.objects.get and the PlayLog insert
HandleMatches ==
    /\ run.pc = "loop"
    /\ IF run.order = <<>>
       THEN /\ run' = [run EXCEPT !.pc = "idle"]
            /\ playlog' = playlog
       ELSE LET g == Head(run.order)
                matches == Matches(cache, g, run.time_window)
                start == Earliest(matches)
                stop == Latest(matches)
                duration == stop - start
            IN  IF ~EnoughMatches(run.counts[g])
                THEN /\ run' = [run EXCEPT !.order = Tail(run.order)]
                     /\ playlog' = playlog
                ELSE IF LongEnough(duration) /\ g[1] \notin tracks
                THEN /\ run' = [run EXCEPT !.pc = "idle"]
                     /\ playlog' = playlog
                ELSE /\ run' = [run EXCEPT !.pc = "delete", !.group = g,
                                           !.measured = Restrict(cache, matches)]
                     /\ playlog' =
                            IF LongEnough(duration) /\ ~Exists(playlog, g, start, stop)
                            THEN Append(playlog, PlayLog(g, start, stop, duration,
                                                         calculate_royalty(duration)))
                            ELSE playlog
    /\ UNCHANGED <<now, tracks, cache, lim, last, quietRuns, replayed>>
    /\ UNCHANGED index

\* line 57: matches.delete(), the filter of lines 24-28 run again as a DELETE
HandleDelete ==
    /\ run.pc = "delete"
    /\ cache' = DeleteMatches(cache, run.group, run.time_window)
    /\ run' = [run EXCEPT !.pc = "loop", !.order = Tail(run.order),
                          !.deleted = Restrict(cache, Matches(cache, run.group,
                                                              run.time_window))]
    /\ UNCHANGED <<now, tracks, playlog, lim, last, quietRuns, replayed>>
    /\ UNCHANGED index

\* one track at one station, up to 4 rows within one step of the clock, and
\* record_match free to run between the queries of a pass
InitRace == InitWith(Horizon(1, 1, RaceRows, 1), {1..1})

NextRace ==
    \/ Tick
    \/ RecordMatch
    \/ HandleGroups
    \/ HandleMatches
    \/ HandleDelete

SpecRace == InitRace /\ [][NextRace]_vars

Next ==
    \/ Tick
    \/ RecordMatch
    \/ RunAggregation
    \/ RunAggregationKilled

Spec == Init /\ [][Next]_vars

SpecBurst == InitBurst /\ [][Next]_vars

SpecShort == InitShort /\ [][Next]_vars

\* the short horizon with the clock running and process_match_cache run again
\* and again, as a periodic job is
SpecShortFair ==
    InitShort /\ [][Next]_vars /\ WF_vars(Tick) /\ WF_vars(RunAggregation)

\* ================================================================
\* The fingerprint engine of zamio_backend: the Song and Fingerprint
\* tables, upload_audio_api with generate_fingerprints_for_song, and
\* detect_audio_match.  A recording is identified with the list of
\* (hash, offset) pairs that fingerprint() yields from it.
\* ================================================================

\* ------------------------------------------------------------ Fingerprint
\* class Fingerprint(models.Model): song, hash, offset
Fingerprint(song, hash, offset) == [song |-> song, hash |-> hash, offset |-> offset]

\* hashes 1..lim.hashes occur in songs and in clips; the next one occurs only
\* in clips and the one after only in the ballast rows
CommonHashes == 1..lim.hashes
ClipOnlyHash == lim.hashes + 1
BallastHash == lim.hashes + 2

\* the Fingerprint table as the database holds it
Rows(table, extra) ==
    table \cup {Fingerprint(extra.song, BallastHash, o) : o \in 1..extra.rows}

\* ------------------------------------------------------------ recordings
\* a recording whose fingerprint list is base repeated reps times, followed by
\* pad entries under the clip-only hash
Recording(base, reps, pad) == [base |-> base, reps |-> reps, pad |-> pad]

\* a song of n frames, one fingerprint per frame, whose hashes repeat with
\* period p
Pattern(n, p) == [i \in 1..n |-> [hash |-> ((i - 1) % p) + 1, offset |-> i - 1]]

\* the m frames of a song that start at frame k: the same hashes, with offsets
\* counted from the start of the clip
ClipOf(song, k, m) ==
    [i \in 1..m |-> [hash |-> song[i + k].hash, offset |-> song[i + k].offset - k]]

\* fingerprint(samples, Fs=rate): the list of (hash, offset) of a recording
fingerprint(audio) ==
    LET m == Len(audio.base) * audio.reps
    IN  [i \in 1..(m + audio.pad) |->
            IF i <= m THEN audio.base[((i - 1) % Len(audio.base)) + 1]
            ELSE [hash |-> ClipOnlyHash, offset |-> i - m - 1]]

\* extract_fingerprints: any exception while reading gives the empty list
extract_fingerprints(audio, readable) ==
    IF readable THEN fingerprint(audio) ELSE <<>>

\* query_hashes = [h for h, _ in query_fingerprints]
query_hashes(query_fingerprints) ==
    [i \in DOMAIN query_fingerprints |-> query_fingerprints[i].hash]

\* ------------------------------------------------------------ queries
\* Fingerprint.objects.filter(hash__in=query_hashes)
FilterHashIn(table, hashes) ==
    LET wanted == {hashes[i] : i \in DOMAIN hashes}
    IN  {fp \in table : fp.hash \in wanted}

\* Fingerprint.objects.filter(song_id=song_id).count()
CountSong(table, song_id) == Cardinality({fp \in table : fp.song = song_id})

\* rows in primary-key order: a song's rows are inserted together, by offset
RowBefore(a, b) ==
    \/ a.song < b.song
    \/ a.song = b.song /\ a.offset < b.offset
    \/ a.song = b.song /\ a.offset = b.offset /\ a.hash <= b.hash

RECURSIVE SortRows(_)
SortRows(S) ==
    IF S = {} THEN <<>>
    ELSE LET first == CHOOSE a \in S : \A b \in S : RowBefore(a, b)
         IN  <<first>> \o SortRows(S \ {first})

\* the orders in which a queryset without order_by may be iterated.  Which key
\* a Counter meets first is decided by the first row that votes for it, so any
\* row may come first and the others follow by primary key.
IterationOrders(S) ==
    LET sorted == SortRows(S)
    IN  {<<fp>> \o SelectSeq(sorted, LAMBDA other : other # fp) : fp \in S}

\* ------------------------------------------------------------ voting
\* the inner loop with the difference taken the other way round
RowVotesReversed(fp, query_fingerprints) ==
    LET same == SelectSeq(query_fingerprints, LAMBDA q : q.hash = fp.hash)
    IN  [i \in DOMAIN same |-> <<fp.song, same[i].offset - fp.offset>>]

\* the inner loop for one row: one vote per query entry with the row's hash
RowVotes(fp, query_fingerprints) ==
    LET same == SelectSeq(query_fingerprints, LAMBDA q : q.hash = fp.hash)
    IN  [i \in DOMAIN same |-> <<fp.song, fp.offset - same[i].offset>>]

\* match_map = Counter(); for fp in db_fps: for h, query_offset in ...: the
\* keys (song_id, offset_diff) in the order in which they were incremented
RECURSIVE match_map(_, _)
match_map(db_fps, query_fingerprints) ==
    IF db_fps = <<>> THEN <<>>
    ELSE RowVotes(Head(db_fps), query_fingerprints)
            \o match_map(Tail(db_fps), query_fingerprints)

Keys(votes) == {votes[i] : i \in DOMAIN votes}

\* match_map[key]
Count(votes, key) == Cardinality({i \in DOMAIN votes : votes[i] = key})

\* the first key of the Counter, whatever its count
first_inserted(votes) ==
    [song_id |-> votes[1][1], offset_diff |-> votes[1][2],
     match_count |-> Count(votes, votes[1])]

\* match_map.most_common(1)[0]: the first inserted key among the largest counts
most_common(votes) ==
    LET count == [k \in Keys(votes) |-> Count(votes, k)]
        best == Max({count[k] : k \in Keys(votes)})
        at == CHOOSE i \in DOMAIN votes :
                /\ count[votes[i]] = best
                /\ \A j \in 1..(i - 1) : count[votes[j]] # best
    IN  [song_id |-> votes[at][1], offset_diff |-> votes[at][2], match_count |-> best]

\* ------------------------------------------------------------ confidence
\* the test with the song's share compared the wrong way round
LowConfidenceInverted(match_count, total_query_hashes, total_song_hashes, c, i, d) ==
    \/ match_count < c
    \/ match_count * 100 < i * total_query_hashes
    \/ IF total_song_hashes # 0 THEN match_count * 100 > d * total_song_hashes
       ELSE 0 > d

\* the test without its third part
LowConfidenceOfQuery(match_count, total_query_hashes, total_song_hashes, c, i, d) ==
    \/ match_count < c
    \/ match_count * 100 < i * total_query_hashes

\* if match_count < MIN_MATCH_COUNT or input_confidence < MIN_INPUT_CONF or
\* db_confidence < MIN_DB_CONF, with the thresholds c, i and d; the confidences
\* are percentages, compared here without the division
LowConfidence(match_count, total_query_hashes, total_song_hashes, c, i, d) ==
    \/ match_count < c
    \/ match_count * 100 < i * total_query_hashes
    \/ IF total_song_hashes # 0 THEN match_count * 100 < d * total_song_hashes
       ELSE 0 < d

\* round(offset_diff * 0.32, 2), in hundredths of a second
offset_seconds(offset_diff) == offset_diff * FRAME_CENTISECONDS

\* ------------------------------------------------------------ responses
\* JsonResponse({"match": False, "reason": reason})
Negative(reason) == [NoResult EXCEPT !.kind = "negative", !.reason = reason, !.status = 200]

\* the failure answered as a negative response
ErrorAsNegative(reason) == Negative("No fingerprints extracted")

\* JsonResponse({"error": reason}, status=500)
Error(reason) == [NoResult EXCEPT !.kind = "error", !.reason = reason, !.status = 500]

\* JsonResponse({"match": True, ...})
Positive(song_id, offset_diff, match_count, total_query_hashes, total_song_hashes) ==
    [NoResult EXCEPT !.kind = "positive", !.status = 200, !.song_id = song_id,
                     !.offset = offset_diff,
                     !.offset_seconds = offset_seconds(offset_diff),
                     !.match_count = match_count,
                     !.total_query_hashes = total_query_hashes,
                     !.total_song_hashes = total_song_hashes]

\* the low-confidence response under the reason of the branch above it
LowConfidenceMislabelled(match_count, total_query_hashes, total_song_hashes) ==
    [Negative("No offset alignment found") EXCEPT
        !.match_count = match_count,
        !.total_query_hashes = total_query_hashes,
        !.total_song_hashes = total_song_hashes]

\* JsonResponse({"match": False, "reason": "Low confidence match", ...})
LowConfidenceMatch(match_count, total_query_hashes, total_song_hashes) ==
    [Negative("Low confidence match") EXCEPT
        !.match_count = match_count,
        !.total_query_hashes = total_query_hashes,
        !.total_song_hashes = total_song_hashes]

\* ------------------------------------------------------------ detect_audio_match
\* the clips a request may carry
Entries == [hash : CommonHashes, offset : 0..lim.offsets]

SeqsUpTo(S, n) == UNION {[1..k -> S] : k \in 0..n}

\* clips of the songs of the horizon: from frame k, of a length just under the
\* vote threshold or up to the song's end
SongClips ==
    UNION {{Recording(ClipOf(Pattern(lim.frames, p), k, m), 1, 0) :
                m \in {MIN_MATCH_COUNT - 1, lim.frames - k}} :
           p \in lim.periods, k \in 0..lim.shift}

Clips ==
    {Recording(base, reps, pad) :
        base \in SeqsUpTo(Entries, lim.qlen), reps \in {1, lim.reps}, pad \in {0, lim.pad}}
    \cup SongClips

\* the query of the request in flight
Query == extract_fingerprints(rec.audio, rec.readable)

\* lines 59-82: conversion, fingerprint extraction
DetectStart ==
    \E audio \in Clips, converts \in BOOLEAN, readable \in BOOLEAN :
        /\ rec.pc = "idle"
        /\ rec.served < lim.requests
        /\ IF ~converts
           THEN /\ rec' = [NoRequest EXCEPT !.served = rec.served + 1,
                                            !.uploaded = ingest.outcome]
                /\ result' = Error("Failed to convert audio to WAV")
           ELSE IF extract_fingerprints(audio, readable) = <<>>
           THEN /\ rec' = [NoRequest EXCEPT !.audio = audio, !.converted = TRUE,
                                            !.readable = readable,
                                            !.served = rec.served + 1,
                                            !.uploaded = ingest.outcome]
                /\ result' = Negative("No fingerprints extracted")
           ELSE /\ rec' = [NoRequest EXCEPT !.pc = "exists", !.audio = audio,
                                            !.converted = TRUE,
                                            !.readable = readable,
                                            !.served = rec.served + 1,
                                            !.uploaded = ingest.outcome]
                /\ result' = NoResult
        /\ UNCHANGED <<songs, fps, fp_rows, ballast, ingest, cached, lim>>
        /\ UNCHANGED <<aggregator, dsp>>

\* lines 84-88: db_fps.exists()
DetectExists ==
    LET found == FilterHashIn(Rows(fps, ballast), query_hashes(Query))
    IN  /\ rec.pc = "exists"
        /\ IF found = {}
           THEN /\ rec' = [rec EXCEPT !.pc = "idle"]
                /\ result' = Negative("No matching hashes in DB")
           ELSE /\ rec' = [rec EXCEPT !.pc = "iterate", !.seen = found]
                /\ result' = result
        /\ UNCHANGED <<songs, fps, fp_rows, ballast, ingest, cached, lim>>
        /\ UNCHANGED <<aggregator, dsp>>

\* lines 90-100: the queryset is evaluated again, the votes are cast and the
\* most common key is taken
Vote(db_fps) ==
    LET votes == match_map(db_fps, Query)
        top == most_common(votes)
    IN  IF votes = <<>>
        THEN /\ rec' = [rec EXCEPT !.pc = "idle", !.db_fps = db_fps]
             /\ result' = Negative("No offset alignment found")
        ELSE /\ rec' = [rec EXCEPT !.pc = "song", !.db_fps = db_fps,
                                   !.song_id = top.song_id,
                                   !.offset_diff = top.offset_diff,
                                   !.match_count = top.match_count]
             /\ result' = result

DetectIterate ==
    LET found == FilterHashIn(Rows(fps, ballast), query_hashes(Query))
    IN  /\ rec.pc = "iterate"
        /\ IF found = {} THEN Vote(<<>>)
           ELSE \E db_fps \in IterationOrders(found) : Vote(db_fps)
        /\ UNCHANGED <<songs, fps, fp_rows, ballast, ingest, cached, lim>>
        /\ UNCHANGED <<aggregator, dsp>>

\* line 101: Song.objects.get(id=song_id); DoesNotExist is caught at line 142
DetectSong ==
    /\ rec.pc = "song"
    /\ IF rec.song_id \in songs
       THEN /\ rec' = [rec EXCEPT !.pc = "count"]
            /\ result' = result
       ELSE /\ rec' = [rec EXCEPT !.pc = "idle"]
            /\ result' = Error("Song matching query does not exist.")
    /\ UNCHANGED <<songs, fps, fp_rows, ballast, ingest, cached, lim>>
    /\ UNCHANGED <<aggregator, dsp>>

\* lines 104-140: the song's row count, the confidences and the response
Respond(match_count, total_query_hashes, total_song_hashes) ==
    IF LowConfidence(match_count, total_query_hashes, total_song_hashes,
                     MIN_MATCH_COUNT, MIN_INPUT_CONF, MIN_DB_CONF)
    THEN LowConfidenceMatch(match_count, total_query_hashes, total_song_hashes)
    ELSE Positive(rec.song_id, rec.offset_diff, match_count, total_query_hashes,
                  total_song_hashes)

DetectCount ==
    /\ rec.pc = "count"
    /\ rec' = [rec EXCEPT !.pc = "idle"]
    /\ result' = Respond(rec.match_count, Len(query_hashes(Query)),
                         CountSong(Rows(fps, ballast), rec.song_id))
    /\ UNCHANGED <<songs, fps, fp_rows, ballast, ingest, cached, lim>>
    /\ UNCHANGED <<aggregator, dsp>>

\* ------------------------------------------------------------ the matcher alone
IndexHorizon(nsongs, nhashes, noffsets, rows, qlen, reps, pad, requests) ==
    [songs |-> nsongs, hashes |-> nhashes, offsets |-> noffsets, rows |-> rows,
     qlen |-> qlen, reps |-> reps, pad |-> pad, requests |-> requests, ulen |-> 0,
     frames |-> 0, periods |-> {}, shift |-> 0]

AggregatorIdle ==
    /\ now = 0
    /\ tracks = {}
    /\ cache = EmptyBag
    /\ playlog = <<>>
    /\ last = Idle("init")
    /\ quietRuns = 0
    /\ replayed = {}
    /\ run = NoRun

\* any small index: every Fingerprint row belongs to a Song row (the foreign
\* key), and one song may carry ballast
InitMatch ==
    /\ AggregatorIdle
    /\ lim = IndexHorizon(2, 1, 1, MatchRows, 2, MatchReps, MatchPad, 1)
    /\ songs \in SUBSET (1..2)
    /\ fps \in {t \in SUBSET [song : songs, hash : 1..1, offset : 0..1] :
                    Cardinality(t) <= MatchRows}
    /\ fp_rows = SetToBag(fps)
    /\ ballast \in {NoBallast} \cup {[song |-> s, rows |-> MatchBallast] : s \in songs}
    /\ ingest = NoIngest
    /\ rec = NoRequest
    /\ result = NoResult
    /\ cached = {}
    /\ dsp = NoDsp

NextMatch ==
    \/ DetectStart
    \/ DetectExists
    \/ DetectIterate
    \/ DetectSong
    \/ DetectCount

SpecMatch == InitMatch /\ [][NextMatch]_vars

\* ------------------------------------------------------------ upload_audio_api
\* the recordings an upload may carry
Uploads ==
    {Recording(base, 1, 0) : base \in SeqsUpTo(Entries, lim.ulen)}
    \cup {Recording(Pattern(lim.frames, p), 1, 0) : p \in lim.periods}

\* unique_together = ('song', 'offset', 'hash') within one batch
Unique(hashes) == \A i, j \in DOMAIN hashes : hashes[i] = hashes[j] => i = j

\* fingerprint_objects = [Fingerprint(song=song, hash=h, offset=o) for h, o in hashes]
fingerprint_objects(song, hashes) ==
    {Fingerprint(song, hashes[i].hash, hashes[i].offset) : i \in DOMAIN hashes}

\* the rows of one batch as a bag: an entry that the list holds twice is two rows
batch_rows(song, hashes) ==
    [fp \in fingerprint_objects(song, hashes) |->
        Cardinality({i \in DOMAIN hashes :
                        Fingerprint(song, hashes[i].hash, hashes[i].offset) = fp})]

\* an insert row by row that stops at the first row the constraint refuses
create_each(table, song, hashes) ==
    LET ok == {n \in 0..Len(hashes) :
                   /\ Unique(SubSeq(hashes, 1, n))
                   /\ fingerprint_objects(song, SubSeq(hashes, 1, n)) \cap table = {}}
        stop == Max(ok)
    IN  [raised |-> stop < Len(hashes),
         table |-> table \cup fingerprint_objects(song, SubSeq(hashes, 1, stop))]

\* an insert that no uniqueness constraint guards
insert_unchecked(table, song, hashes) ==
    [raised |-> FALSE, table |-> table \cup fingerprint_objects(song, hashes)]

\* Fingerprint.objects.bulk_create(fingerprint_objects): one transaction, so a
\* batch that breaks the constraint raises IntegrityError and inserts nothing
bulk_create(table, song, hashes) ==
    IF Unique(hashes) /\ fingerprint_objects(song, hashes) \cap table = {}
    THEN [raised |-> FALSE, table |-> table \cup fingerprint_objects(song, hashes)]
    ELSE [raised |-> TRUE, table |-> table]

\* upload_audio_api, lines 25-34: Song.objects.create; ids are never reused
UploadAudio ==
    \E audio \in Uploads :
        /\ ingest.pc = "idle"
        /\ ingest.song < lim.songs
        /\ songs' = songs \cup {ingest.song + 1}
        /\ ingest' = [pc |-> "created", song |-> ingest.song + 1, audio |-> audio,
                      outcome |-> "none"]
        /\ UNCHANGED <<fps, fp_rows, ballast, rec, result, cached, lim>>
        /\ UNCHANGED <<aggregator, dsp>>

\* generate_fingerprints_for_song, called at line 37 of upload_audio_api
GenerateFingerprints ==
    \E converts \in BOOLEAN, readable \in BOOLEAN :
        LET stored == bulk_create(fps, ingest.song, fingerprint(ingest.audio))
            outcome == IF ingest.song \notin songs THEN "raised"
                       ELSE IF ~converts THEN "not converted"
                       ELSE IF ~readable \/ stored.raised THEN "failed"
                       ELSE "stored"
        IN  /\ ingest.pc = "created"
            /\ ingest' = [ingest EXCEPT !.pc = "idle", !.outcome = outcome]
            /\ fps' = IF ingest.song \in songs /\ converts /\ readable
                      THEN stored.table ELSE fps
            /\ fp_rows' = IF outcome = "stored"
                          THEN fp_rows (+) batch_rows(ingest.song,
                                                      fingerprint(ingest.audio))
                          ELSE fp_rows
            /\ UNCHANGED <<songs, ballast, rec, result, cached, lim>>
            /\ UNCHANGED <<aggregator, dsp>>

\* Song.delete(): on_delete=models.CASCADE removes the song's Fingerprint rows
DeleteSong ==
    \E song \in songs :
        /\ songs' = songs \ {song}
        /\ fps' = {fp \in fps : fp.song # song}
        /\ fp_rows' = [fp \in {row \in BagToSet(fp_rows) : row.song # song} |->
                          fp_rows[fp]]
        /\ ballast' = IF ballast.song = song THEN NoBallast ELSE ballast
        /\ UNCHANGED <<ingest, rec, result, cached, lim>>
        /\ UNCHANGED <<aggregator, dsp>>

\* ------------------------------------------------------------ the index in use
\* empty tables; uploads, deletions and recognitions interleave
InitIndex ==
    /\ AggregatorIdle
    /\ lim = [IndexHorizon(IndexSongs, 1, 1, 0, 1, MIN_MATCH_COUNT, 0, IndexRequests)
                EXCEPT !.ulen = IndexUploadLen]
    /\ songs = {}
    /\ fps = {}
    /\ fp_rows = EmptyBag
    /\ ballast = NoBallast
    /\ ingest = NoIngest
    /\ rec = NoRequest
    /\ result = NoResult
    /\ cached = {}
    /\ dsp = NoDsp

NextIndex ==
    \/ UploadAudio
    \/ GenerateFingerprints
    \/ DeleteSong
    \/ DetectStart
    \/ DetectExists
    \/ DetectIterate
    \/ DetectSong
    \/ DetectCount

SpecIndex == InitIndex /\ [][NextIndex]_vars

\* ------------------------------------------------------------ the round trip
\* one song of TripFrames frames is uploaded, with hashes that never repeat or
\* that repeat every second frame, and clips of it are recognised
InitTrip ==
    /\ AggregatorIdle
    /\ lim = [IndexHorizon(1, TripFrames, 0, 0, 0, 1, 0, 1)
                EXCEPT !.frames = TripFrames, !.periods = {2, TripFrames},
                       !.shift = TripShift]
    /\ songs = {}
    /\ fps = {}
    /\ fp_rows = EmptyBag
    /\ ballast = NoBallast
    /\ ingest = NoIngest
    /\ rec = NoRequest
    /\ result = NoResult
    /\ cached = {}
    /\ dsp = NoDsp

NextTrip ==
    \/ UploadAudio
    \/ GenerateFingerprints
    \/ DetectStart
    \/ DetectExists
    \/ DetectIterate
    \/ DetectSong
    \/ DetectCount

SpecTrip == InitTrip /\ [][NextTrip]_vars

\* ------------------------------------------------------------ tasks_Grok.py
\* query_hashes[i:i + batch_size], with i counted from 1
Batch(hashes, i) ==
    SubSeq(hashes, i, IF i + batch_size - 1 < Len(hashes)
                      THEN i + batch_size - 1 ELSE Len(hashes))

\* for i in range(0, len(query_hashes), batch_size): db_fps.extend(
\* Fingerprint.objects.filter(hash__in=query_hashes[i:i + batch_size])): the
\* lists this can build, one queryset after the other
RECURSIVE batched_lookup(_, _, _)
batched_lookup(table, hashes, i) ==
    IF i > Len(hashes) THEN {<<>>}
    ELSE LET found == FilterHashIn(table, Batch(hashes, i))
             heads == IF found = {} THEN {<<>>} ELSE IterationOrders(found)
         IN  {head \o rest :
                 head \in heads, rest \in batched_lookup(table, hashes, i + batch_size)}

\* the response of tasks_Grok.py lines 143-177, before it is cached
grok_response(song_id, offset_diff, match_count, total_query_hashes, total_song_hashes) ==
    IF LowConfidence(match_count, total_query_hashes, total_song_hashes,
                     MIN_MATCH_COUNT, MIN_INPUT_CONF, MIN_DB_CONF)
    THEN [LowConfidenceMatch(match_count, total_query_hashes, total_song_hashes)
            EXCEPT !.reason = "Low confidence match."]
    ELSE Positive(song_id, offset_diff, match_count, total_query_hashes,
                  total_song_hashes)

\* cache.get(audio_hash): the entries kept under the digest of these bytes
CachedFor(audio) == {entry \in cached : entry.key = audio}

\* cache.set(audio_hash, result, timeout=3600)
cache_set(audio, value) ==
    {entry \in cached : entry.key # audio} \cup {[key |-> audio, value |-> value]}

\* lines 81-107: the cached response if there is one, else conversion and
\* fingerprint extraction
GrokStart ==
    \E audio \in Clips, converts \in BOOLEAN, readable \in BOOLEAN :
        LET began == [NoRequest EXCEPT !.audio = audio,
                                       !.served = rec.served + 1,
                                       !.uploaded = ingest.outcome]
        IN  /\ rec.pc = "idle"
            /\ rec.served < lim.requests
            /\ IF CachedFor(audio) # {}
               THEN /\ rec' = [began EXCEPT !.hit = TRUE]
                    /\ result' = (CHOOSE entry \in CachedFor(audio) : TRUE).value
               ELSE IF ~converts
               THEN /\ rec' = began
                    /\ result' = Error("Failed to convert audio to WAV.")
               ELSE IF extract_fingerprints(audio, readable) = <<>>
               THEN /\ rec' = [began EXCEPT !.converted = TRUE, !.readable = readable]
                    /\ result' = Negative("No fingerprints extracted.")
               ELSE /\ rec' = [began EXCEPT !.pc = "lookup", !.converted = TRUE,
                                            !.readable = readable]
                    /\ result' = NoResult
            /\ UNCHANGED <<songs, fps, fp_rows, ballast, ingest, cached, lim>>
            /\ UNCHANGED <<aggregator, dsp>>

\* lines 109-130: the batched lookup, the votes and the most common key
GrokLookup ==
    \E db_fps \in batched_lookup(Rows(fps, ballast), query_hashes(Query), 1) :
        /\ rec.pc = "lookup"
        /\ IF db_fps = <<>>
           THEN /\ rec' = [rec EXCEPT !.pc = "idle"]
                /\ result' = Negative("No matching hashes in database.")
           ELSE LET votes == match_map(db_fps, Query)
                    top == most_common(votes)
                IN  IF votes = <<>>
                    THEN /\ rec' = [rec EXCEPT !.pc = "idle", !.db_fps = db_fps]
                         /\ result' = Negative("No offset alignment found.")
                    ELSE /\ rec' = [rec EXCEPT !.pc = "fetch", !.db_fps = db_fps,
                                               !.song_id = top.song_id,
                                               !.offset_diff = top.offset_diff,
                                               !.match_count = top.match_count]
                         /\ result' = result
        /\ UNCHANGED <<songs, fps, fp_rows, ballast, ingest, cached, lim>>
        /\ UNCHANGED <<aggregator, dsp>>

\* lines 132-137: Song.objects.get(id=song_id)
GrokSong ==
    /\ rec.pc = "fetch"
    /\ IF rec.song_id \in songs
       THEN /\ rec' = [rec EXCEPT !.pc = "answer"]
            /\ result' = result
       ELSE /\ rec' = [rec EXCEPT !.pc = "idle"]
            /\ result' = Error("Matched song not found.")
    /\ UNCHANGED <<songs, fps, fp_rows, ballast, ingest, cached, lim>>
    /\ UNCHANGED <<aggregator, dsp>>

\* lines 139-181: the confidences and the response, which is cached
GrokCount ==
    LET answer == grok_response(rec.song_id, rec.offset_diff, rec.match_count,
                                Len(query_hashes(Query)),
                                CountSong(Rows(fps, ballast), rec.song_id))
    IN  /\ rec.pc = "answer"
        /\ rec' = [rec EXCEPT !.pc = "idle"]
        /\ result' = answer
        /\ cached' = cache_set(rec.audio, answer)
        /\ UNCHANGED <<songs, fps, fp_rows, ballast, ingest, lim>>
        /\ UNCHANGED <<aggregator, dsp>>

\* ------------------------------------------------------------ the batched matcher
\* an index of a few rows and queries of one entry, alone or repeated until the
\* list is one longer than a lookup batch, or of that many entries of one hash
\* at successive offsets
InitBatched ==
    /\ AggregatorIdle
    /\ lim = [IndexHorizon(2, 1, 1, MatchRows, 1, batch_size + 1, 0, 1)
                EXCEPT !.frames = batch_size + 1, !.periods = {1}]
    /\ songs \in SUBSET (1..2)
    /\ fps \in {t \in SUBSET [song : songs, hash : 1..1, offset : 0..1] :
                    Cardinality(t) <= MatchRows}
    /\ fp_rows = SetToBag(fps)
    /\ ballast = NoBallast
    /\ ingest = NoIngest
    /\ rec = NoRequest
    /\ result = NoResult
    /\ cached = {}
    /\ dsp = NoDsp

NextBatched ==
    \/ GrokStart
    \/ GrokLookup
    \/ GrokSong
    \/ GrokCount

SpecBatched == InitBatched /\ [][NextBatched]_vars

\* ------------------------------------------------------------ engine.py: peaks
\* arr2D is a matrix, a sequence of rows; cells are (frequency, time), from 1
Shape(arr2D) == <<Len(arr2D), Len(arr2D[1])>>

InBounds(arr2D, cell) ==
    /\ cell[1] \in 1..Shape(arr2D)[1]
    /\ cell[2] \in 1..Shape(arr2D)[2]

\* neighborhood = iterate_structure(generate_binary_structure(2,
\* CONNECTIVITY_MASK), PEAK_NEIGHBORHOOD_SIZE), centred on a cell: the square
Footprint(cell) ==
    {<<cell[1] + df, cell[2] + dt>> :
        df \in (0 - PeakRadius)..PeakRadius, dt \in (0 - PeakRadius)..PeakRadius}

\* the index that mode='reflect' reads for an index outside 1..n
Reflect(i, n) == IF i < 1 THEN 1 - i ELSE IF i > n THEN 2 * n + 1 - i ELSE i

\* maximum_filter(arr2D, footprint=neighborhood) at one cell
maximum_filter(arr2D, cell) ==
    Max({arr2D[Reflect(c[1], Shape(arr2D)[1])][Reflect(c[2], Shape(arr2D)[2])] :
            c \in Footprint(cell)})

\* binary_erosion(background, structure=neighborhood, border_value=1) at one
\* cell, with background = (arr2D == 0)
binary_erosion(arr2D, cell) ==
    \A c \in Footprint(cell) : InBounds(arr2D, c) => arr2D[c[1]][c[2]] = 0

\* detected_peaks = local_max != eroded_background
detected_peaks(arr2D, cell) ==
    (maximum_filter(arr2D, cell) = arr2D[cell[1]][cell[2]]) # binary_erosion(arr2D, cell)

\* np.where walks the matrix row by row
RowMajor(arr2D) ==
    [k \in 1..(Shape(arr2D)[1] * Shape(arr2D)[2]) |->
        <<((k - 1) \div Shape(arr2D)[2]) + 1, ((k - 1) % Shape(arr2D)[2]) + 1>>]

\* get_2D_peaks: list(zip(freqs_filter, times_filter)), indices from 0
get_2D_peaks(arr2D, amp_min) ==
    LET kept == SelectSeq(RowMajor(arr2D),
                          LAMBDA cell : /\ detected_peaks(arr2D, cell)
                                        /\ arr2D[cell[1]][cell[2]] > amp_min)
    IN  [k \in DOMAIN kept |-> <<kept[k][1] - 1, kept[k][2] - 1>>]

\* fingerprint, lines 23-24: local_maxima = get_2D_peaks(arr2D, amp_min=amp_min)
GetPeaks ==
    /\ dsp.pc = "specgram"
    /\ dsp' = [dsp EXCEPT !.pc = "peaks",
                          !.peaks = get_2D_peaks(dsp.arr2D, dsp.amp_min)]
    /\ UNCHANGED <<songs, fps, fp_rows, ballast, ingest, rec, result, cached, lim>>
    /\ UNCHANGED aggregator

\* every spectrogram of PeakRows bins and PeakCols frames with amplitudes
\* 0..PeakLevels, and a threshold of 0 or 1
InitPeaks ==
    /\ AggregatorIdle
    /\ lim = IndexHorizon(0, 0, 0, 0, 0, 0, 0, 0)
    /\ songs = {}
    /\ fps = {}
    /\ fp_rows = EmptyBag
    /\ ballast = NoBallast
    /\ ingest = NoIngest
    /\ rec = NoRequest
    /\ result = NoResult
    /\ cached = {}
    /\ dsp \in {[NoDsp EXCEPT !.pc = "specgram", !.arr2D = arr2D, !.amp_min = amp_min] :
                    arr2D \in [1..PeakRows -> [1..PeakCols -> 0..PeakLevels]],
                    amp_min \in 0..1}

NextPeaks == GetPeaks

SpecPeaks == InitPeaks /\ [][NextPeaks]_vars

\* ------------------------------------------------------------ engine.py: hashes
\* peaks.sort(key=itemgetter(1)): by time, equal times in their given order
sort_by_time(peaks) ==
    LET before(a, b) == peaks[a][2] < peaks[b][2] \/ (peaks[a][2] = peaks[b][2] /\ a < b)
        at(k) == CHOOSE a \in DOMAIN peaks :
                    Cardinality({b \in DOMAIN peaks : before(b, a)}) = k - 1
    IN  [k \in DOMAIN peaks |-> peaks[at(k)]]

\* hashlib.sha1(f"{freq1}|{freq2}|{t_delta}").hexdigest()[:FINGERPRINT_REDUCTION]:
\* the digest is identified with the three numbers it is taken from
sha1_hexdigest(freq1, freq2, t_delta) == <<freq1, freq2, t_delta>>

\* for i in range(n): for j in range(1, width + 1): the pairs (i, j) in the
\* order of the two loops
fan_pairs(n, width) ==
    [k \in 1..(n * width) |-> <<(k - 1) \div width, ((k - 1) % width) + 1>>]

\* the hashes of the sorted peaks for the pairs of the fan, in loop order
hashes_of(peaks, pairs) ==
    LET n == Len(peaks)
        t_delta(pair) == peaks[pair[1] + pair[2] + 1][2] - peaks[pair[1] + 1][2]
        kept == SelectSeq(pairs, LAMBDA pair :
                    /\ pair[1] + pair[2] < n
                    /\ MIN_HASH_TIME_DELTA <= t_delta(pair)
                    /\ t_delta(pair) <= MAX_HASH_TIME_DELTA)
    IN  [k \in DOMAIN kept |->
            [hash |-> sha1_hexdigest(peaks[kept[k][1] + 1][1],
                                     peaks[kept[k][1] + kept[k][2] + 1][1],
                                     t_delta(kept[k])),
             offset |-> peaks[kept[k][1] + 1][2]]]

\* the inner loop run as range(1, fan_value + 1)
generate_hashes_wide(peaks, fan_value) ==
    hashes_of(sort_by_time(peaks), fan_pairs(Len(peaks), fan_value))

\* generate_hashes(peaks, fan_value), with PEAK_SORT on
generate_hashes(peaks, fan_value) ==
    hashes_of(sort_by_time(peaks), fan_pairs(Len(peaks), fan_value - 1))

\* fingerprint, line 27: generate_hashes(local_maxima, fan_value=fan_value)
GenerateHashes ==
    /\ dsp.pc = "peaks"
    /\ dsp.fan_value > 0
    /\ dsp' = [dsp EXCEPT !.pc = "hashes",
                          !.hashes = generate_hashes(dsp.peaks, dsp.fan_value)]
    /\ UNCHANGED <<songs, fps, fp_rows, ballast, ingest, rec, result, cached, lim>>
    /\ UNCHANGED aggregator

\* every list of up to HashPeaks peaks at two frequencies and at frames 0, 1
\* and MAX_HASH_TIME_DELTA + 1, with a fan_value of 1..HashFan
InitHashes ==
    /\ AggregatorIdle
    /\ lim = IndexHorizon(0, 0, 0, 0, 0, 0, 0, 0)
    /\ songs = {}
    /\ fps = {}
    /\ fp_rows = EmptyBag
    /\ ballast = NoBallast
    /\ ingest = NoIngest
    /\ rec = NoRequest
    /\ result = NoResult
    /\ cached = {}
    /\ dsp \in {[NoDsp EXCEPT !.pc = "peaks", !.peaks = peaks, !.fan_value = fan_value] :
                    peaks \in SeqsUpTo((0..1) \X {0, 1, MAX_HASH_TIME_DELTA + 1}, HashPeaks),
                    fan_value \in 1..HashFan}

NextHashes == GenerateHashes

SpecHashes == InitHashes /\ [][NextHashes]_vars

\* ------------------------------------------------------------ the cached matcher
\* timeout=3600: an entry leaves the cache when its hour is over
CacheExpire ==
    \E entry \in cached :
        /\ cached' = cached \ {entry}
        /\ UNCHANGED <<songs, fps, fp_rows, ballast, ingest, rec, result, lim>>
        /\ UNCHANGED <<aggregator, dsp>>

\* empty tables and an empty cache; uploads, deletions and two recognitions
InitCached ==
    /\ AggregatorIdle
    /\ lim = [IndexHorizon(IndexSongs, 1, 1, 0, 1, MIN_MATCH_COUNT, 0, 2)
                EXCEPT !.ulen = IndexUploadLen]
    /\ songs = {}
    /\ fps = {}
    /\ fp_rows = EmptyBag
    /\ ballast = NoBallast
    /\ ingest = NoIngest
    /\ rec = NoRequest
    /\ result = NoResult
    /\ cached = {}
    /\ dsp = NoDsp

NextCached ==
    \/ UploadAudio
    \/ GenerateFingerprints
    \/ DeleteSong
    \/ GrokStart
    \/ GrokLookup
    \/ GrokSong
    \/ GrokCount
    \/ CacheExpire

SpecCached == InitCached /\ [][NextCached]_vars

\* ------------------------------------------------------------ claims
SamePair(a, b) == a.track = b.track /\ a.station = b.station

\* the two sessions share more than an instant of the Step grid
Overlap(a, b) == a.start_time < b.stop_time /\ b.start_time < a.stop_time

\* what the last pass saw of group g when it started
SeenMatches(g) == Matches(last.before, g, last.time_window)
SeenCount(g) == GroupCount(last.before, g, last.time_window)
SeenSpan(g) == Latest(SeenMatches(g)) - Earliest(SeenMatches(g))

\* the PlayLog rows the last pass inserted for group g
EmittedFor(g) ==
    {i \in (last.logBefore + 1)..Len(playlog) :
        playlog[i].track = g[1] /\ playlog[i].station = g[2]}

AllGroups == TrackIds \X StationIds

\* C1: the play log never holds two rows of one (song, station) pair whose
\* [start_time, stop_time] intervals overlap.
C1_NoOverlappingSessions ==
    \A i, j \in 1..Len(playlog) :
        (i < j /\ SamePair(playlog[i], playlog[j])) => ~Overlap(playlog[i], playlog[j])

\* C2: no session is emitted for a pair whose span intersects
\* [T1 - 60 s, T2 + 60 s] of a session [T1, T2] the play log already holds for
\* that pair.
C2_OverlapExclusion ==
    \A i, j \in 1..Len(playlog) :
        (i < j /\ SamePair(playlog[i], playlog[j])) =>
            ~(/\ playlog[j].start_time <= playlog[i].stop_time + MARGIN_SECONDS
              /\ playlog[j].stop_time >= playlog[i].start_time - MARGIN_SECONDS)

\* C3: of two passes run in succession with no record_match between them, the
\* second emits no PlaySession.
C3_SecondRunEmitsNothing ==
    (last.op = "run" /\ last.outcome # "killed" /\ quietRuns = 2) =>
        Len(playlog) = last.logBefore

\* C4: once a pass has died between the insert of a session and the delete of
\* its rows, no later pass emits a second session over those rows.
C4_ReplaySafe ==
    \A i \in replayed : \A j \in 1..Len(playlog) :
        (i < j /\ SamePair(playlog[i], playlog[j])) => ~Overlap(playlog[i], playlog[j])

\* C5: a pass emits nothing for a group with fewer than 3 rows in the window,
\* nothing for a group of 3 or more rows spanning less than 30 s, and exactly one
\* session [min(matched_at), max(matched_at)] for a group of 3 or more rows
\* spanning 30 s or more whose pair has no session in the play log.
C5_EmitsPerGroup ==
    (last.op = "run" /\ last.outcome # "killed") =>
        \A g \in AllGroups :
            g[1] \in tracks =>
                IF SeenCount(g) < MIN_COUNT THEN EmittedFor(g) = {}
                ELSE IF SeenSpan(g) < MIN_SECONDS THEN EmittedFor(g) = {}
                ELSE (\A i \in 1..last.logBefore :
                          ~(playlog[i].track = g[1] /\ playlog[i].station = g[2]))
                     => /\ Cardinality(EmittedFor(g)) = 1
                        /\ \A i \in EmittedFor(g) :
                            /\ playlog[i].start_time = Earliest(SeenMatches(g))
                            /\ playlog[i].stop_time = Latest(SeenMatches(g))

\* C6: every emitted PlaySession has stop_time >= start_time,
\* duration = stop_time - start_time and duration >= 30 s.
C6_SessionShape ==
    \A i \in 1..Len(playlog) :
        /\ playlog[i].stop_time >= playlog[i].start_time
        /\ playlog[i].duration = playlog[i].stop_time - playlog[i].start_time
        /\ playlog[i].duration >= MIN_SECONDS

\* a pass has just emitted a session
C6_Witness ==
    /\ last.op = "run"
    /\ Len(playlog) > last.logBefore

C8_RoyaltyPerMinute ==
    \A i \in 1..Len(playlog) :
        playlog[i].royalty_amount =
            RoundCents(playlog[i].duration * RATE_PER_MINUTE_CENTS, 60)

\* C9: the cache row that record_match stores carries the matched_at the caller
\* supplied.
C9_StoredAsSupplied ==
    last.op = "record" => last.stored = last.supplied

\* C10: when the processing of one group raises, the pass still processes every
\* other group of the window: none of them keeps a counted row.
C10_FailingGroupSkipped ==
    (last.op = "run" /\ last.outcome = "raised") =>
        \A g \in AllGroups :
            (g[1] \in tracks /\ SeenCount(g) >= MIN_COUNT) =>
                Matches(cache, g, last.time_window) = {}

\* ------------------------------------------------------------ claims on the matcher
\* the votes cast by the request in flight or just answered
Histogram == match_map(rec.db_fps, Query)

\* the request has taken a most common key
Chosen == rec.match_count > 0

Reported == <<rec.song_id, rec.offset_diff>>

\* C11: whenever the vote histogram is not empty, the (song_id, offset) pair that
\* detect_audio_match takes, and reports in a positive response, has at least as
\* many votes as every other pair of the histogram.
C11_WinnerHasMostVotes ==
    Chosen =>
        LET votes == Histogram
        IN  /\ Reported \in Keys(votes)
            /\ rec.match_count = Count(votes, Reported)
            /\ \A k \in Keys(votes) : Count(votes, k) <= rec.match_count
            /\ result.kind = "positive" =>
                  /\ <<result.song_id, result.offset>> = Reported
                  /\ result.match_count = rec.match_count

\* a positive response whose histogram holds a pair with fewer votes
C11_Witness ==
    /\ Chosen
    /\ result.kind = "positive"
    /\ LET votes == Histogram
       IN  \E k \in Keys(votes) : Count(votes, k) < rec.match_count

\* C12: when several (song_id, offset) pairs share the largest vote count, the
\* pair taken is one of the song with the highest id among them, in whatever
\* order the rows and the query entries were iterated.
C12_TieToHigherSong ==
    Chosen =>
        LET votes == Histogram
        IN  \A k \in Keys(votes) :
                Count(votes, k) = rec.match_count => k[1] <= rec.song_id

\* the request that took a most common key has been answered
Answered == rec.pc = "idle" /\ Chosen

\* the largest count of the histogram, the length of the query and the number of
\* rows of the song taken
WinningVotes ==
    LET votes == Histogram
    IN  Max({Count(votes, k) : k \in Keys(votes)})
QueryLength ==
    IF rec.readable THEN Len(rec.audio.base) * rec.audio.reps + rec.audio.pad ELSE 0
SongRows ==
    Cardinality({fp \in fps : fp.song = rec.song_id})
        + (IF ballast.song = rec.song_id THEN ballast.rows ELSE 0)

\* C13: with a histogram that is not empty and v its largest count, the response
\* is positive exactly when v >= 50, 100 * v / |query| >= 20 and
\* 100 * v / N_song >= 5, and negative otherwise.
C13_PositiveIffThresholds ==
    Answered =>
        LET v == WinningVotes
        IN  /\ result.kind \in {"positive", "negative"}
            /\ result.kind = "positive" <=>
                  /\ v >= 50
                  /\ 100 * v >= 20 * QueryLength
                  /\ 100 * v >= 5 * SongRows

\* a negative response that only the song's row count causes
C13_Witness ==
    /\ Answered
    /\ result.kind = "negative"
    /\ LET v == WinningVotes
       IN  /\ v >= 50
           /\ 100 * v >= 20 * QueryLength
           /\ 100 * v < 5 * SongRows

\* thresholds (c, i, d) at, below and above the ones of the code
Thresholds ==
    {0, MIN_MATCH_COUNT - 1, MIN_MATCH_COUNT, MIN_MATCH_COUNT + 1}
        \X {0, MIN_INPUT_CONF - 1, MIN_INPUT_CONF, 100}
        \X {0, MIN_DB_CONF - 1, MIN_DB_CONF, 100}

\* the answer under the thresholds t, from the counts of the response
PositiveUnder(t) ==
    ~LowConfidence(result.match_count, result.total_query_hashes,
                   result.total_song_hashes, t[1], t[2], t[3])

\* C14: for the same query and index, a response that is positive under the
\* thresholds (c, i, d) is positive under any thresholds that are no higher.
C14_ConfidenceMonotone ==
    Answered =>
        /\ result.kind = "positive" <=>
              PositiveUnder(<<MIN_MATCH_COUNT, MIN_INPUT_CONF, MIN_DB_CONF>>)
        /\ \A t \in Thresholds, u \in Thresholds :
              (u[1] <= t[1] /\ u[2] <= t[2] /\ u[3] <= t[3] /\ PositiveUnder(t))
                  => PositiveUnder(u)

\* a response that is negative under the code's thresholds and positive when
\* only the song's share is asked less of
C14_Witness ==
    /\ Answered
    /\ result.kind = "negative"
    /\ PositiveUnder(<<MIN_MATCH_COUNT, MIN_INPUT_CONF, MIN_DB_CONF - 1>>)

\* C15: every negative response carries one reason out of four: no fingerprints
\* extracted when the query is empty, no matching hashes when the probe returned
\* no row, no offset alignment when the histogram is empty, and low confidence
\* when a most common key exists and a threshold is not met.
C15_NegativeReasons ==
    (rec.pc = "idle" /\ result.kind = "negative") =>
        /\ result.reason \in {"No fingerprints extracted", "No matching hashes in DB",
                              "No offset alignment found", "Low confidence match"}
        /\ result.reason = "No fingerprints extracted" <=> Query = <<>>
        /\ result.reason = "No matching hashes in DB" <=>
              (Query # <<>> /\ rec.seen = {})
        /\ result.reason = "No offset alignment found" <=>
              (Query # <<>> /\ rec.seen # {} /\ Histogram = <<>>)
        /\ result.reason = "Low confidence match" <=>
              /\ Chosen
              /\ LowConfidence(WinningVotes, QueryLength, result.total_song_hashes,
                               MIN_MATCH_COUNT, MIN_INPUT_CONF, MIN_DB_CONF)

\* a negative response for a histogram that is empty
C15_Witness ==
    /\ rec.pc = "idle"
    /\ result.kind = "negative"
    /\ rec.seen # {}
    /\ Histogram = <<>>

\* a request has been answered
Done == rec.pc = "idle" /\ rec.served > 0

TheSong == fingerprint(ingest.audio)
TheClip == fingerprint(rec.audio)

\* the frames of the song at which the clip starts
StartFrames ==
    {k \in 0..(Len(TheSong) - Len(TheClip)) : TheClip = ClipOf(TheSong, k, Len(TheClip))}

\* the frame offsets at which every fingerprint of the clip is one of the song
Aligned ==
    {d \in 0..Len(TheSong) :
        \A i \in DOMAIN TheClip :
            Fingerprint(ingest.song, TheClip[i].hash, TheClip[i].offset + d) \in fps}

\* a clip of the song has been answered; the song has at least MIN_MATCH_COUNT
\* fingerprints, was stored before the request began and is the only one
RoundTrip ==
    /\ Done
    /\ rec.converted
    /\ rec.readable
    /\ rec.uploaded = "stored"
    /\ songs = {ingest.song}
    /\ Len(TheSong) >= MIN_MATCH_COUNT
    /\ TheClip # <<>>
    /\ StartFrames # {}

\* C17 as stated: the clip that starts at frame k of the song is answered
\* positively for that song, with an offset within one frame of k and, for the
\* whole song, at least 95 percent of the query matched.
C17_RoundTrip ==
    RoundTrip =>
        \A k \in StartFrames :
            /\ result.kind = "positive"
            /\ result.song_id = ingest.song
            /\ result.offset \in {k - 1, k, k + 1}
            /\ TheClip = TheSong =>
                  100 * result.match_count >= 95 * result.total_query_hashes

\* C17, amended: a clip that itself has at least MIN_MATCH_COUNT fingerprints,
\* and at least 5 percent as many as the song, is answered positively for that
\* song with every query entry matched; the offset is one at which all of the
\* clip's fingerprints are fingerprints of the song, the frame k being one of
\* them, and it is 0 for the whole song.
C17_RoundTripOfLongClips ==
    (/\ RoundTrip
     /\ Len(TheClip) >= MIN_MATCH_COUNT
     /\ 100 * Len(TheClip) >= MIN_DB_CONF * Len(TheSong)) =>
        /\ result.kind = "positive"
        /\ result.song_id = ingest.song
        /\ result.match_count = result.total_query_hashes
        /\ StartFrames \subseteq Aligned
        /\ result.offset \in Aligned
        /\ TheClip = TheSong => result.offset = 0

\* a clip that starts at frame 2 of a repetitive song and is reported elsewhere
C17_Witness ==
    /\ RoundTrip
    /\ result.kind = "positive"
    /\ 2 \in StartFrames
    /\ result.offset \notin {1, 2, 3}

\* frames * hop / Fs in hundredths of a second, rounded to the nearest one
HopSeconds(frames) ==
    (2 * 100 * frames * hop_size + DEFAULT_FS) \div (2 * DEFAULT_FS)

\* C18: in every Positive result offset_seconds is offset_frames * hop / Fs,
\* 2048 / 44100 seconds per frame, within the 0.05 seconds the spec allows for
\* it (5 hundredths).
C18_SecondsFromHop ==
    result.kind = "positive" =>
        LET expected == HopSeconds(result.offset)
        IN  /\ result.offset_seconds - expected <= 5
            /\ expected - result.offset_seconds <= 5

\* C19: ingest is all or nothing for a song. When an ingest attempt ends in a
\* failure (conversion, fingerprinting or the index write), the store holds
\* neither the Song row nor any Fingerprint row of it; when it ends in success
\* the store holds the Song and every fingerprint generated for it.
C19_AllOrNothing ==
    [][(ingest.pc = "created" /\ ingest'.pc = "idle") =>
          /\ ingest'.outcome # "stored" =>
                /\ ingest.song \notin songs'
                /\ {fp \in fps' : fp.song = ingest.song} = {}
          /\ ingest'.outcome = "stored" =>
                /\ ingest.song \in songs'
                /\ fingerprint_objects(ingest.song, fingerprint(ingest.audio))
                       \subseteq fps']_vars

\* C20: a recognition that runs while a song is being ingested never gets
\* part of that song's fingerprints from the index: each of its two probes,
\* db_fps.exists() and the iteration of db_fps, holds either no row of the song
\* or every row of the stored batch that the query selects, and it holds rows
\* only of a batch that was written.
C20_ProbesSeeNoneOrAll ==
    LET batch == fingerprint_objects(ingest.song, fingerprint(ingest.audio))
        all == FilterHashIn(batch, query_hashes(Query))
    IN  \A probe \in {rec.seen, {rec.db_fps[i] : i \in DOMAIN rec.db_fps}} :
            LET mine == {fp \in probe : fp.song = ingest.song}
            IN  \/ mine = {}
                \/ mine = all /\ ingest.outcome = "stored"

\* a request that began before the song's batch was written and whose probes
\* both found the two rows of the song
C20_Witness ==
    /\ rec.uploaded = "none"
    /\ ingest.outcome = "stored"
    /\ Cardinality({fp \in rec.seen : fp.song = ingest.song}) >= 2
    /\ Len(rec.db_fps) >= 2

\* C21: within one recognition the rows used for voting, the winning song's
\* row count and the winning song's record come from one index state: the
\* rows iterated are the rows exists() saw, the winning song's record is found,
\* and every row that voted for the winner is among the rows counted for it.
C21_OneSnapshot ==
    (Done /\ rec.db_fps # <<>>) =>
        LET voters == {rec.db_fps[i] : i \in DOMAIN rec.db_fps}
        IN  /\ voters = rec.seen
            /\ result.kind # "error"
            /\ Chosen =>
                  Cardinality({fp \in voters : fp.song = rec.song_id})
                      <= result.total_song_hashes

Pairs(song_id, d) ==
    {pair \in {fp \in fps : fp.song = song_id} \X DOMAIN Query :
        /\ pair[1].hash = Query[pair[2]].hash
        /\ pair[1].offset - Query[pair[2]].offset = d}

\* C23: for every query list, of more than one lookup batch too, and every
\* index state, the vote count of each (song_id, d) is the number of pairs of
\* an index row and a query entry of equal hash whose offsets differ by d: each
\* pair is counted once.
C23_EachPairOnce ==
    rec.db_fps # <<>> =>
        LET votes == Histogram
        IN  \A key \in Keys(votes) :
                Count(votes, key) = Cardinality(Pairs(key[1], key[2]))

\* C24: when the aggregation keeps being run, every row that was appended to
\* the match cache is eventually deleted from it by some pass: no row stays in
\* the cache forever.  It is stated for the behaviours in which every Track
\* exists, so that no pass is cut short by a missing one.
C24_EveryRowConsumed ==
    (tracks = 1..ShortTracks) =>
        \A row \in [track : 1..ShortTracks, station : {1},
                     matched_at : {tick * Step : tick \in 0..ShortTicks}] :
            BagIn(row, cache) ~> ~BagIn(row, cache)

\* the sets of PlayLog rows that a pass started now may insert when the cache
\* holds c, one set for each order of the groups
EmittedBy(c) ==
    LET time_window == now - WINDOW_MINUTES * 60
        counts == [g \in GroupKeys(c, time_window) |-> GroupCount(c, g, time_window)]
    IN  {LET r == RunGroups(order, counts, time_window, c, playlog, NoGroup)
         IN  {r.log[i] : i \in (Len(playlog) + 1)..Len(r.log)} :
            order \in Orders(GroupKeys(c, time_window))}

\* C25: an exact duplicate of a row of the cache (same track, station and
\* matched_at) never changes the sessions that the next pass emits.  It is
\* stated for the states in which every Track exists.
C25_DuplicateChangesNothing ==
    (tracks = 1..lim.tracks) =>
        \A row \in BagToSet(cache) :
            EmittedBy(cache (+) SetToBag({row})) = EmittedBy(cache)

\* the cell is above the threshold, strictly above every other cell of its
\* square, and the square lies inside the spectrogram
StrictPeak(arr2D, amp_min, cell) ==
    /\ \A c \in Footprint(cell) : InBounds(arr2D, c)
    /\ arr2D[cell[1]][cell[2]] > amp_min
    /\ \A c \in Footprint(cell) \ {cell} : arr2D[c[1]][c[2]] < arr2D[cell[1]][cell[2]]

\* C26: the peak picker returns cell (f, t) if and only if S[f, t] is above
\* amp_min and strictly greater than every other cell of the square centred on
\* it: a cell that ties with a neighbour is not a peak.  It is stated for the
\* cells whose square lies inside the spectrogram, the others being excluded.
C26_PeaksAreStrictMaxima ==
    dsp.pc = "peaks" =>
        \A cell \in (1..PeakRows) \X (1..PeakCols) :
            (\A c \in Footprint(cell) : InBounds(dsp.arr2D, c)) =>
                ((\E k \in DOMAIN dsp.peaks : dsp.peaks[k] = <<cell[1] - 1, cell[2] - 1>>)
                    <=> StrictPeak(dsp.arr2D, dsp.amp_min, cell))

\* the pairs (i, j), i from 0, of an anchor and one of the fan_value - 1 peaks
\* that follow it in the sorted list
FanOf(sorted, fan_value) ==
    {pair \in (0..(Len(sorted) - 1)) \X (1..(fan_value - 1)) :
        pair[1] + pair[2] < Len(sorted)}

\* C27: with the peaks ordered by time, generate_hashes emits for each anchor i
\* and each j in 1..F-1 with i + j < |peaks| exactly one fingerprint
\* (H(f1, f2, dt), t1) when MIN_HASH_TIME_DELTA <= dt <= MAX_HASH_TIME_DELTA and
\* none otherwise; the anchor time is the time of the first peak of the pair
\* and the output has at most (F - 1) * |peaks| entries.
C27_OneHashPerPair ==
    dsp.pc = "hashes" =>
        LET sorted == sort_by_time(dsp.peaks)
            dt(pair) == sorted[pair[1] + pair[2] + 1][2] - sorted[pair[1] + 1][2]
            due == {pair \in FanOf(sorted, dsp.fan_value) :
                        MIN_HASH_TIME_DELTA <= dt(pair) /\ dt(pair) <= MAX_HASH_TIME_DELTA}
            entry(pair) == [hash |-> <<sorted[pair[1] + 1][1],
                                      sorted[pair[1] + pair[2] + 1][1], dt(pair)>>,
                            offset |-> sorted[pair[1] + 1][2]]
            emitted == {dsp.hashes[k] : k \in DOMAIN dsp.hashes}
        IN  /\ \A e \in emitted \cup {entry(pair) : pair \in due} :
                  Cardinality({k \in DOMAIN dsp.hashes : dsp.hashes[k] = e})
                      = Cardinality({pair \in due : entry(pair) = e})
            /\ Len(dsp.hashes) <= (dsp.fan_value - 1) * Len(dsp.peaks)

\* a list given out of time order, of which one pair of the fan is emitted and
\* another is too far apart in time
C27_Witness ==
    /\ dsp.pc = "hashes"
    /\ dsp.peaks # sort_by_time(dsp.peaks)
    /\ dsp.hashes # <<>>
    /\ Len(dsp.hashes) < Cardinality(FanOf(sort_by_time(dsp.peaks), dsp.fan_value))
    /\ Len(dsp.peaks) > dsp.fan_value

\* C28: every cache row that a pass deletes for a group was among the rows over
\* which the pass computed the group's count and among those over which it
\* computed the span: a row that record_match inserts for the group while the
\* pass runs is not deleted uncounted.
C28_DeletedWereCounted ==
    /\ run.deleted \sqsubseteq
          Restrict(run.before, Matches(run.before, run.group, run.time_window))
    /\ run.deleted \sqsubseteq run.measured

\* C29: in every outcome that reports confidences the votes of the chosen pair
\* are at most the number of query entries and at most the number of rows of
\* the chosen song, so that both confidences lie between 0 and 100 percent.
\* It is stated for the query lists that hold no (hash, offset) entry twice.
C29_ConfidencesWithinHundred ==
    (/\ Done
     /\ result.match_count > 0
     /\ Unique(Query)) =>
        /\ result.match_count <= result.total_query_hashes
        /\ result.match_count <= result.total_song_hashes

\* the responses that lines 95-181 of tasks_Grok.detect_audio_match give for
\* this audio against the present index, whatever the cache holds
Uncached(audio) ==
    LET query == fingerprint(audio)
        answer(db_fps) ==
            IF db_fps = <<>> THEN Negative("No matching hashes in database.")
            ELSE LET top == most_common(match_map(db_fps, query))
                 IN  IF top.song_id \notin songs THEN Error("Matched song not found.")
                     ELSE grok_response(top.song_id, top.offset_diff, top.match_count,
                                        Len(query),
                                        CountSong(Rows(fps, ballast), top.song_id))
    IN  {Error("Failed to convert audio to WAV."), Negative("No fingerprints extracted.")}
        \cup {answer(db_fps) :
                 db_fps \in batched_lookup(Rows(fps, ballast), query_hashes(query), 1)}

\* C30: the response that the result-caching recognizer returns for a clip is
\* a response the matcher would compute for that clip against the index as it
\* is when the call is made, also when the response is taken from the cache.
C30_CachedAsUncached ==
    [][(rec.pc = "idle" /\ rec'.served = rec.served + 1 /\ rec'.hit) =>
          result' \in Uncached(rec'.audio)]_vars

====
